---- MODULE Spec2Model ----
(***************************************************************************)
(* Model of week_01_raw_llm_api/hello_llm.py: the residency probe          *)
(* (ModelStateManager), the timeout policy (AdaptiveTimeoutManager), the   *)
(* request functions (enhanced_sync_request, enhanced_async_request), the  *)
(* benchmark run (main) and the report (analyze_enhanced_results).         *)
(*                                                                         *)
(* Units.  latency_ms is kept in whole milliseconds.  The entries of       *)
(* performance_history are seconds in the code (elapsed / 1000); here an   *)
(* entry is the same quantity counted in 1/MsPerSecond seconds, so that    *)
(* 0.1 s is the integer 100 and get_timeout divides by MsPerSecond where   *)
(* the code works on seconds.  Fractions (success_rate, avg_latency) are   *)
(* pairs [num, den] compared by cross-multiplication; on the values used   *)
(* here the code's floating-point results compare the same way.            *)
(*                                                                         *)
(* Left out: state_manager.warmup_time, which is written by warmup_model   *)
(* and read only to print it, and everything else that is only printed.    *)
(***************************************************************************)
EXTENDS Integers, Sequences, FiniteSets, TLC

VARIABLES
    pc,                   \* position of main(), or the name of the API under test
    model_state,          \* main's local model_state
    is_warm,              \* state_manager.is_warm
    performance_history,  \* timeout_manager.performance_history
    results,              \* main's results list
    idx,                  \* loop position in TEST_PROMPTS (1-based)
    timeout,              \* main's local timeout / warm_timeout; last get_timeout value
    tasks,                \* the coroutines handed to asyncio.gather
    table,                \* rows added to the report table
    sent,                 \* history variable: every generation request issued
    recorded,             \* history variable: every latency given to record_success
    call,                 \* history variable: arguments of the last get_timeout call
    response,             \* the endpoint's answer in hand: of /api/tags, /api/ps, a POST
    returned,             \* history variable: what each call of the API under test returned
    consulted,            \* history variable: the value of each get_timeout call of main
    clients               \* the requests, by position in sent, whose HTTP client is open

vars == <<pc, model_state, is_warm, performance_history, results,
          idx, timeout, tasks, table, sent, recorded, call,
          response, returned, consulted, clients>>

----------------------------------------------------------------------------
(* Program constants *)

MODEL == "qwen3:latest"

TEST_PROMPTS == <<"Say hello", "What is 2+2?", "Explain Python in one sentence">>

cold_timeout == 45

warm_timeout == 15

HistoryCapacity == 5

MsPerSecond == 1000

AsyncHealthyBelowMs == 5000

ConcurrentHealthyAbove == 80

SyncHealthyRate == 100

(* Bounds of the model *)

\* record_success calls made on the timeout manager in SpecTimeout
MaxRecords == 6

\* outcomes in the list handed to analyze_enhanced_results in SpecAnalyze
MaxOutcomes == 6

\* check_model_state calls made on the state manager in SpecProbe
MaxProbes == 3

\* requests handed to the request functions in SpecDispatch
MaxDispatches == 2

----------------------------------------------------------------------------
(* Helpers *)

Max(a, b) == IF a >= b THEN a ELSE b

RECURSIVE SumSeq(_)
SumSeq(s) == IF s = <<>> THEN 0 ELSE Head(s) + SumSeq(Tail(s))

RECURSIVE SumLatency(_)
SumLatency(rs) == IF rs = <<>> THEN 0 ELSE Head(rs).latency_ms + SumLatency(Tail(rs))

Last(s) == s[Len(s)]

----------------------------------------------------------------------------
(* AdaptiveTimeoutManager *)

\* AdaptiveSeconds with the result rounded up instead of truncated
AdaptiveSecondsRoundedUp(history) ==
    (3 * SumSeq(history) + 2 * MsPerSecond * Len(history) - 1)
        \div (2 * MsPerSecond * Len(history))

\* int(avg_time * 1.5) for avg_time = sum(history) / len(history) seconds:
\* int() truncates, and the history is non-negative.
AdaptiveSeconds(history) ==
    (3 * SumSeq(history)) \div (2 * MsPerSecond * Len(history))

\* get_timeout with the adaptive tier tried before the cold-start tier
get_timeout_history_first(is_first_request, state, history) ==
    IF history # <<>>
    THEN Max(AdaptiveSeconds(history), warm_timeout)
    ELSE IF state = "cold" /\ is_first_request
         THEN cold_timeout
         ELSE warm_timeout

get_timeout(is_first_request, state, history) ==
    IF state = "cold" /\ is_first_request
    THEN cold_timeout
    ELSE IF history # <<>>
         THEN Max(AdaptiveSeconds(history), warm_timeout)
         ELSE warm_timeout

\* record_success with pop() in place of pop(0): the newest entry is dropped
record_success_pop_last(history, latency_seconds) ==
    LET appended == Append(history, latency_seconds)
    IN  IF Len(appended) > HistoryCapacity
        THEN SubSeq(appended, 1, Len(appended) - 1)
        ELSE appended

record_success(history, latency_seconds) ==
    LET appended == Append(history, latency_seconds)
    IN  IF Len(appended) > HistoryCapacity THEN Tail(appended) ELSE appended

----------------------------------------------------------------------------
(* What the endpoint can do to one POST /api/generate issued with a timeout  *)
(* of t seconds.  kind is what the HTTP library reports, elapsed the         *)
(* wall-clock milliseconds until the response or the failure is observed.    *)

\* generation time of the endpoint, in ms
ServerLatencies == {11000}

\* elapsed ms of a failure that is not a timeout (a refused connection)
FailureLatencies == {100}

\* A response in time, no response within the timeout, no connection.
Responses(t) ==
    {[kind |-> "ok", elapsed |-> l] :
        l \in {x \in ServerLatencies : x <= t * MsPerSecond}}
    \cup {[kind |-> "timeout", elapsed |-> t * MsPerSecond]}
    \cup {[kind |-> "conn_error", elapsed |-> l] : l \in FailureLatencies}

\* A 2xx response whose body response.json() rejects.  enhanced_sync_request
\* has called record_success by then; in enhanced_async_request the failure
\* takes the path of every other Exception.
SyncResponses(t) ==
    Responses(t)
    \cup {[kind |-> "bad_json", elapsed |-> l] :
            l \in {x \in ServerLatencies : x <= t * MsPerSecond}}

\* A coroutine run as a task of its own can also end with an exception that
\* is not an Exception (asyncio.CancelledError): neither handler of
\* enhanced_async_request catches it.
TaskResponses(t) ==
    Responses(t) \cup {[kind |-> "cancelled", elapsed |-> l] : l \in FailureLatencies}

\* A status that raise_for_status() rejects (4xx, 5xx), on top of the above.
EndpointResponses(t) ==
    SyncResponses(t)
    \cup {[kind |-> "http_error", elapsed |-> l] : l \in FailureLatencies}

\* the failure reduced to a connection failure or any other failure
SyncErrorKind(kind) ==
    CASE kind = "conn_error" -> "CONNECTION"
      [] kind = "http_error" -> "OTHER"
      [] kind = "bad_json"   -> "OTHER"

\* type(e).__name__ of the exception the library raises
SyncErrorName(kind) ==
    CASE kind = "conn_error" -> "ConnectionError"
      [] kind = "http_error" -> "HTTPError"
      [] kind = "bad_json"   -> "JSONDecodeError"

AsyncErrorName(kind) ==
    CASE kind = "conn_error" -> "ConnectError"
      [] kind = "http_error" -> "HTTPStatusError"
      [] kind = "bad_json"   -> "JSONDecodeError"

----------------------------------------------------------------------------
(* Request functions.  A result is the dict the function returns; a dict    *)
(* built on the success path has no "error_type" key.                       *)

\* except requests.exceptions.Timeout / httpx.TimeoutException
TimeoutResult(prompt, t, elapsed, method) ==
    [prompt |-> prompt, response |-> "Timeout after", latency_ms |-> elapsed,
     success |-> FALSE, method |-> method, error_type |-> "timeout"]

\* the dict of the except Exception branch without its "error_type" key
ErrorResultUntyped(prompt, elapsed, method, name) ==
    [prompt |-> prompt, response |-> "Error", latency_ms |-> elapsed,
     success |-> FALSE, method |-> method]

\* except Exception as e
ErrorResult(prompt, elapsed, method, name) ==
    [prompt |-> prompt, response |-> "Error", latency_ms |-> elapsed,
     success |-> FALSE, method |-> method, error_type |-> name]

SuccessResult(prompt, elapsed, method) ==
    [prompt |-> prompt, response |-> "text", latency_ms |-> elapsed,
     success |-> TRUE, method |-> method]

\* SyncRecords with the record_success call left out, as it is in
\* enhanced_async_request
SyncNeverRecords(kind) == FALSE

\* Whether enhanced_sync_request reaches timeout_manager.record_success:
\* the call follows raise_for_status() and precedes response.json().
SyncRecords(kind) == kind \in {"ok", "bad_json"}

\* enhanced_sync_request(prompt, timeout, timeout_manager): the returned dict
\* and timeout_manager.performance_history after the call.
enhanced_sync_request(prompt, t, history, resp) ==
    [result  |-> CASE resp.kind = "ok"      -> SuccessResult(prompt, resp.elapsed, "sync")
                   [] resp.kind = "timeout" -> TimeoutResult(prompt, t, resp.elapsed, "sync")
                   [] OTHER -> ErrorResult(prompt, resp.elapsed, "sync",
                                           SyncErrorName(resp.kind)),
     history |-> IF SyncRecords(resp.kind)
                 THEN record_success(history, resp.elapsed)
                 ELSE history]

\* enhanced_async_request(prompt, timeout): the returned dict, or the
\* exception the coroutine ends with.
enhanced_async_request(prompt, t, resp) ==
    CASE resp.kind = "ok"        -> SuccessResult(prompt, resp.elapsed, "async")
      [] resp.kind = "timeout"   -> TimeoutResult(prompt, t, resp.elapsed, "async")
      [] resp.kind = "cancelled" -> [exception |-> "CancelledError"]
      [] OTHER -> ErrorResult(prompt, resp.elapsed, "async", AsyncErrorName(resp.kind))

\* sync_request_basic(prompt): its "success" (the warmup reads nothing else)
sync_request_basic(resp) == resp.kind = "ok"

\* isinstance(result, dict)
IsDict(r) == "method" \in DOMAIN r

----------------------------------------------------------------------------
(* analyze_enhanced_results: the rows of the report table *)

methods == <<"sync", "async", "concurrent">>

RatEq(q, n) == q.num = n * q.den

RatLt(q, n) == q.num < n * q.den

RatGt(q, n) == q.num > n * q.den

method_results(rs, method) == SelectSeq(rs, LAMBDA r : r.method = method)

successful(mr) == SelectSeq(mr, LAMBDA r : r.success)

\* len(successful) / len(method_results) * 100
success_rate(mr) == [num |-> Len(successful(mr)) * 100, den |-> Len(mr)]

\* avg_latency taken over every outcome of the method, failed ones included
avg_latency_of_all(mr) ==
    IF successful(mr) # <<>>
    THEN [num |-> SumLatency(mr), den |-> Len(mr)]
    ELSE [num |-> 0, den |-> 1]

\* sum(latency_ms of successful) / len(successful) if successful else 0
avg_latency(mr) ==
    IF successful(mr) # <<>>
    THEN [num |-> SumLatency(successful(mr)), den |-> Len(successful(mr))]
    ELSE [num |-> 0, den |-> 1]

\* optimization with >= in place of > in the concurrent test
optimization_at_least(method, rate, avg) ==
    IF method = "sync" /\ RatEq(rate, SyncHealthyRate)
    THEN "State mgmt working"
    ELSE IF method = "async" /\ RatLt(avg, AsyncHealthyBelowMs)
    THEN "Timeouts optimized"
    ELSE IF method = "concurrent" /\ ~RatLt(rate, ConcurrentHealthyAbove)
    THEN "Parallel efficiency"
    ELSE "Needs tuning"

optimization(method, rate, avg) ==
    IF method = "sync" /\ RatEq(rate, SyncHealthyRate)
    THEN "State mgmt working"
    ELSE IF method = "async" /\ RatLt(avg, AsyncHealthyBelowMs)
    THEN "Timeouts optimized"
    ELSE IF method = "concurrent" /\ RatGt(rate, ConcurrentHealthyAbove)
    THEN "Parallel efficiency"
    ELSE "Needs tuning"

table_row(rs, method) ==
    LET mr == method_results(rs, method)
    IN  [method       |-> method,
         success_rate |-> success_rate(mr),
         avg_latency  |-> avg_latency(mr),
         optimization |-> optimization(method, success_rate(mr), avg_latency(mr))]

\* add_rows without the `if method_results:` test: a row for every method
RECURSIVE add_rows_unguarded(_, _)
add_rows_unguarded(rs, ms) ==
    IF ms = <<>> THEN <<>>
    ELSE <<table_row(rs, Head(ms))>> \o add_rows_unguarded(rs, Tail(ms))

RECURSIVE add_rows(_, _)
add_rows(rs, ms) ==
    IF ms = <<>> THEN <<>>
    ELSE IF method_results(rs, Head(ms)) # <<>>
         THEN <<table_row(rs, Head(ms))>> \o add_rows(rs, Tail(ms))
         ELSE add_rows(rs, Tail(ms))

analyze_enhanced_results(rs) == add_rows(rs, methods)

----------------------------------------------------------------------------
(* ModelStateManager and test_connection *)

\* what GET /api/tags can answer
TagsResponses == {"200", "500", "exception"}

\* test_connection taking any answered status for a reachable endpoint
test_connection_any_status(resp) == resp # "exception"

test_connection(resp) == resp = "200"

\* names of the loaded models GET /api/ps can list
LoadedModelLists ==
    {<<>>, <<"qwen3:latest">>, <<"llama3:latest">>, <<"qwen3">>,
     <<"llama3:latest", "qwen3:latest">>}

PsResponses ==
    {[kind |-> "200", models |-> ms] : ms \in LoadedModelLists}
    \cup {[kind |-> "500", models |-> <<>>], [kind |-> "exception", models |-> <<>>]}

\* check_model_state looking at the first loaded model only
check_model_state_first_only(resp, warm) ==
    IF resp.kind = "200"
    THEN LET found == resp.models # <<>> /\ resp.models[1] = MODEL
         IN  [state |-> IF found THEN "warm" ELSE "cold", is_warm |-> found]
    ELSE [state |-> "unknown", is_warm |-> warm]

\* check_model_state taking a failed query for an unloaded model
check_model_state_cold_on_failure(resp, warm) ==
    IF resp.kind = "200"
    THEN LET found == \E k \in 1..Len(resp.models) : resp.models[k] = MODEL
         IN  [state |-> IF found THEN "warm" ELSE "cold", is_warm |-> found]
    ELSE [state |-> "cold", is_warm |-> warm]

\* check_model_state answering a failed query from self.is_warm
check_model_state_cached(resp, warm) ==
    IF resp.kind = "200"
    THEN LET found == \E k \in 1..Len(resp.models) : resp.models[k] = MODEL
         IN  [state |-> IF found THEN "warm" ELSE "cold", is_warm |-> found]
    ELSE [state |-> IF warm THEN "warm" ELSE "unknown", is_warm |-> warm]

\* check_model_state: the returned state and self.is_warm after the call
check_model_state(resp, warm) ==
    IF resp.kind = "200"
    THEN LET found == \E k \in 1..Len(resp.models) : resp.models[k] = MODEL
         IN  [state |-> IF found THEN "warm" ELSE "cold", is_warm |-> found]
    ELSE [state |-> "unknown", is_warm |-> warm]

\* what the user can type at the warmup prompt
WarmupInputs == {"", "1", "2", "y"}

offer_warmup_choice(input) == (IF input = "" THEN "1" ELSE input) = "2"

\* timeout=30 of sync_request_basic
basic_timeout == 30

----------------------------------------------------------------------------
(* main() *)

Prompts == 1..Len(TEST_PROMPTS)

NoTasks == [k \in Prompts |-> [state |-> "none"]]

\* value of response while no answer of GET /api/ps is being handled
NoResponse == [kind |-> "none", models |-> <<>>]

\* value of call before any get_timeout call
NoCall == [is_first_request |-> FALSE, model_state |-> "None", history |-> <<>>]

Init ==
    /\ pc = "start"
    /\ model_state = "None"
    /\ is_warm = FALSE
    /\ performance_history = <<>>
    /\ results = <<>>
    /\ idx = 1
    /\ timeout = 0
    /\ tasks = NoTasks
    /\ table = <<>>
    /\ sent = <<>>
    /\ recorded = <<>>
    /\ call = NoCall
    /\ response = NoResponse
    /\ returned = <<>>
    /\ consulted = <<>>
    /\ clients = {}

\* lines 304-306: GET /api/tags ends, main returns when test_connection
\* is False
TestConnection ==
    /\ pc = "start"
    /\ \E resp \in TagsResponses :
         /\ response' = [kind |-> resp, models |-> <<>>]
         /\ pc' = IF test_connection(resp) THEN "probe" ELSE "returned"
    /\ UNCHANGED <<model_state, is_warm, performance_history, results,
                   idx, timeout, tasks, table, sent, recorded, call,
                   returned, consulted, clients>>

\* lines 309 and 42: check_model_state is entered and its GET /api/ps ends,
\* with an answer or with an exception
ProbeRequest ==
    /\ pc = "probe"
    /\ \E resp \in PsResponses : response' = resp
    /\ pc' = "probe_response"
    /\ UNCHANGED <<model_state, is_warm, performance_history, results,
                   idx, timeout, tasks, table, sent, recorded, call,
                   returned, consulted, clients>>

\* lines 43-59 and 309-316: the answer is classified, check_model_state
\* returns, the timeout manager is created
CheckModelState ==
    /\ pc = "probe_response"
    /\ LET out == check_model_state(response, is_warm)
       IN  /\ model_state' = out.state
           /\ is_warm' = out.is_warm
           /\ pc' = IF out.state = "cold" THEN "choice" ELSE "sync"
    /\ response' = NoResponse
    /\ performance_history' = <<>>
    /\ UNCHANGED <<results, idx, timeout, tasks, table, sent,
                   recorded, call, returned, consulted, clients>>

\* lines 317-318
OfferWarmupChoice ==
    /\ pc = "choice"
    /\ \E input \in WarmupInputs :
         pc' = IF offer_warmup_choice(input) THEN "warmup" ELSE "sync"
    /\ UNCHANGED <<model_state, is_warm, performance_history, results,
                   idx, timeout, tasks, table, sent, recorded, call,
                   response, returned, consulted, clients>>

\* lines 319, 75 and 127-136: warmup_model is entered and the POST of
\* sync_request_basic("Hi") ends, with an answer or with an exception
WarmupRequest ==
    /\ pc = "warmup"
    /\ \E resp \in SyncResponses(basic_timeout) : response' = resp
    /\ pc' = "warmup_response"
    /\ UNCHANGED <<model_state, is_warm, performance_history, results,
                   idx, timeout, tasks, table, sent, recorded, call,
                   returned, consulted, clients>>

\* WarmupModel taking the model for warm once a warmup was attempted
WarmupModelAlwaysWarm ==
    /\ pc = "warmup_response"
    /\ is_warm' = TRUE
    /\ model_state' = "warm"
    /\ response' = NoResponse
    /\ pc' = "sync"
    /\ UNCHANGED <<performance_history, results, idx, timeout, tasks, table,
                   sent, recorded, call, returned, consulted, clients>>

\* lines 76-88 and 319-320: warmup_model returns result["success"]; the dict
\* of sync_request_basic is dropped
WarmupModel ==
    /\ pc = "warmup_response"
    /\ is_warm' = (sync_request_basic(response) \/ is_warm)
    /\ model_state' = IF sync_request_basic(response) THEN "warm" ELSE model_state
    /\ response' = NoResponse
    /\ pc' = "sync"
    /\ UNCHANGED <<performance_history, results, idx, timeout, tasks, table,
                   sent, recorded, call, returned, consulted, clients>>

Request(method, k, t) == [method |-> method, prompt |-> TEST_PROMPTS[k], timeout |-> t]

\* the arguments of a get_timeout call
Call(is_first_request, state, history) ==
    [is_first_request |-> is_first_request, model_state |-> state,
     history |-> history]

\* a client that is closed only when its request got an answer in time
release_on_answer(cs, j, resp) == IF resp.kind = "ok" THEN cs \ {j} ELSE cs

\* leaving `async with httpx.AsyncClient(...) as client` (line 224), or the
\* `with sessions.Session()` inside requests.post: the client of request j
\* is closed however the block is left
release(cs, j, resp) == cs \ {j}

\* SyncIssue issuing every request with the warm timeout, the timeout manager
\* never asked
SyncIssueFixedTimeout ==
    /\ pc = "sync"
    /\ timeout' = warm_timeout
    /\ sent' = Append(sent, Request("sync", idx, warm_timeout))
    /\ clients' = clients \cup {Len(sent) + 1}
    /\ pc' = "sync_wait"
    /\ UNCHANGED <<model_state, is_warm, performance_history, results,
                   idx, tasks, table, recorded, call, response, returned,
                   consulted>>

\* lines 329-333: the timeout is computed and the POST is issued
SyncIssue ==
    /\ pc = "sync"
    /\ LET t == get_timeout(idx = 1, model_state, performance_history)
       IN  /\ timeout' = t
           /\ consulted' = Append(consulted, t)
           /\ sent' = Append(sent, Request("sync", idx, t))
    /\ call' = Call(idx = 1, model_state, performance_history)
    /\ clients' = clients \cup {Len(sent) + 1}
    /\ pc' = "sync_wait"
    /\ UNCHANGED <<model_state, is_warm, performance_history, results,
                   idx, tasks, table, recorded, response, returned>>

\* SyncResolve with a loop that sends the prompt again after a failure
SyncResolveRetryOnFailure ==
    /\ pc = "sync_wait"
    /\ \E resp \in SyncResponses(timeout) :
         LET out == enhanced_sync_request(TEST_PROMPTS[idx], timeout,
                                          performance_history, resp)
             again == resp.kind # "ok"
         IN  /\ results' = Append(results, out.result)
             /\ performance_history' = out.history
             /\ recorded' = IF SyncRecords(resp.kind)
                             THEN Append(recorded, resp.elapsed)
                             ELSE recorded
             /\ clients' = release(clients, Len(sent), resp)
             /\ idx' = IF again THEN idx
                       ELSE IF idx = Len(TEST_PROMPTS) THEN 1 ELSE idx + 1
             /\ pc' = IF again THEN "sync"
                      ELSE IF idx = Len(TEST_PROMPTS) THEN "async" ELSE "sync"
    /\ UNCHANGED <<model_state, is_warm, timeout, tasks, table, sent, call,
                   response, returned, consulted>>

\* lines 333-343: the POST resolves, the result is appended, the loop moves on
SyncResolve ==
    /\ pc = "sync_wait"
    /\ \E resp \in SyncResponses(timeout) :
         LET out == enhanced_sync_request(TEST_PROMPTS[idx], timeout,
                                          performance_history, resp)
         IN  /\ results' = Append(results, out.result)
             /\ performance_history' = out.history
             /\ recorded' = IF SyncRecords(resp.kind)
                             THEN Append(recorded, resp.elapsed)
                             ELSE recorded
             /\ clients' = release(clients, Len(sent), resp)
    /\ idx' = IF idx = Len(TEST_PROMPTS) THEN 1 ELSE idx + 1
    /\ pc' = IF idx = Len(TEST_PROMPTS) THEN "async" ELSE "sync"
    /\ UNCHANGED <<model_state, is_warm, timeout, tasks, table, sent, call,
                   response, returned, consulted>>

\* AsyncIssue that does not wait for the answer before it issues the request
\* of the next prompt
AsyncIssueAhead ==
    /\ pc = "async"
    /\ LET t == get_timeout(FALSE, "warm", performance_history)
       IN  /\ timeout' = t
           /\ consulted' = IF idx < Len(TEST_PROMPTS)
                            THEN consulted \o <<t, t>> ELSE Append(consulted, t)
           /\ sent' = IF idx < Len(TEST_PROMPTS)
                       THEN sent \o <<Request("async", idx, t),
                                      Request("async", idx + 1, t)>>
                       ELSE Append(sent, Request("async", idx, t))
    /\ call' = Call(FALSE, "warm", performance_history)
    /\ clients' = clients \cup {Len(sent) + 1}
    /\ pc' = "async_wait"
    /\ UNCHANGED <<model_state, is_warm, performance_history, results,
                   idx, tasks, table, recorded, response, returned>>

\* lines 348-350 and 224-225: the timeout is computed, the client is opened
\* and the POST is issued
AsyncIssue ==
    /\ pc = "async"
    /\ LET t == get_timeout(FALSE, "warm", performance_history)
       IN  /\ timeout' = t
           /\ consulted' = Append(consulted, t)
           /\ sent' = Append(sent, Request("async", idx, t))
    /\ call' = Call(FALSE, "warm", performance_history)
    /\ clients' = clients \cup {Len(sent) + 1}
    /\ pc' = "async_wait"
    /\ UNCHANGED <<model_state, is_warm, performance_history, results,
                   idx, tasks, table, recorded, response, returned>>

\* AsyncResolve with a loop that stops at the first failed request
AsyncResolveBreakOnFailure ==
    /\ pc = "async_wait"
    /\ \E resp \in Responses(timeout) :
         /\ results' = Append(results,
                              enhanced_async_request(TEST_PROMPTS[idx], timeout, resp))
         /\ clients' = release(clients, Len(sent), resp)
         /\ idx' = IF idx = Len(TEST_PROMPTS) \/ resp.kind # "ok" THEN 1 ELSE idx + 1
         /\ pc' = IF idx = Len(TEST_PROMPTS) \/ resp.kind # "ok"
                  THEN "concurrent" ELSE "async"
    /\ UNCHANGED <<model_state, is_warm, performance_history, timeout,
                   tasks, table, sent, recorded, call,
                   response, returned, consulted>>

\* lines 350-356: the POST resolves, the client is closed, the result is
\* appended, the loop moves on
AsyncResolve ==
    /\ pc = "async_wait"
    /\ \E resp \in Responses(timeout) :
         /\ results' = Append(results,
                              enhanced_async_request(TEST_PROMPTS[idx], timeout, resp))
         /\ clients' = release(clients, Len(sent), resp)
    /\ idx' = IF idx = Len(TEST_PROMPTS) THEN 1 ELSE idx + 1
    /\ pc' = IF idx = Len(TEST_PROMPTS) THEN "concurrent" ELSE "async"
    /\ UNCHANGED <<model_state, is_warm, performance_history, timeout,
                   tasks, table, sent, recorded, call,
                   response, returned, consulted>>

\* lines 361-363: one timeout for the batch, one coroutine per prompt, all
\* started by asyncio.gather, each with a client of its own
ConcurrentIssue ==
    /\ pc = "concurrent"
    /\ LET t == get_timeout(FALSE, "warm", performance_history)
       IN  /\ timeout' = t
           /\ consulted' = Append(consulted, t)
           /\ sent' = sent \o [k \in Prompts |-> Request("concurrent", k, t)]
    /\ call' = Call(FALSE, "warm", performance_history)
    /\ clients' = clients \cup {Len(sent) + k : k \in Prompts}
    /\ tasks' = [k \in Prompts |-> [state |-> "pending"]]
    /\ pc' = "gather"
    /\ UNCHANGED <<model_state, is_warm, performance_history, results,
                   idx, table, recorded, response, returned>>

\* gather_done for a gather that gives up on the batch at the first failure:
\* the requests still in flight are cancelled
gather_cancel_siblings(ts, k, resp, result) ==
    [j \in DOMAIN ts |->
        IF j = k THEN [state |-> "done", resp |-> resp, result |-> result]
        ELSE IF ts[j].state = "pending" /\ resp.kind # "ok"
             THEN [state |-> "done", resp |-> [kind |-> "none"],
                   result |-> [exception |-> "CancelledError"]]
             ELSE ts[j]]

\* asyncio.gather(*tasks, return_exceptions=True): when task k ends, with a
\* value or with an exception, that is its entry of the result list; the
\* other tasks go on.
gather_done(ts, k, resp, result) ==
    [ts EXCEPT ![k] = [state |-> "done", resp |-> resp, result |-> result]]

\* line 363: an in-flight request of the batch resolves and its client is
\* closed
TaskResolve(k) ==
    /\ pc = "gather"
    /\ tasks[k].state = "pending"
    /\ \E resp \in TaskResponses(timeout) :
         /\ tasks' = gather_done(tasks, k, resp,
                                 enhanced_async_request(TEST_PROMPTS[k], timeout, resp))
         /\ clients' = release(clients, Len(sent) - Len(TEST_PROMPTS) + k, resp)
    /\ UNCHANGED <<pc, model_state, is_warm, performance_history,
                   results, idx, timeout, table, sent, recorded, call,
                   response, returned, consulted>>

\* concurrent_results with the entries in reverse task order
concurrent_results_reversed(ts) ==
    [k \in Prompts |-> ts[Len(TEST_PROMPTS) + 1 - k].result]

\* concurrent_results: the entries in task order
concurrent_results(ts) == [k \in Prompts |-> ts[k].result]

\* lines 366-368: the dicts among concurrent_results, relabelled
RECURSIVE collect(_)
collect(crs) ==
    IF crs = <<>> THEN <<>>
    ELSE IF IsDict(Head(crs))
         THEN <<[Head(crs) EXCEPT !.method = "concurrent"]>> \o collect(Tail(crs))
         ELSE collect(Tail(crs))

\* lines 363-374: gather returns, the results are collected and the report made
Report ==
    /\ pc = "gather"
    /\ \A k \in Prompts : tasks[k].state # "pending"
    /\ results' = results \o collect(concurrent_results(tasks))
    /\ table' = analyze_enhanced_results(results')
    /\ pc' = "done"
    /\ UNCHANGED <<model_state, is_warm, performance_history, idx,
                   timeout, tasks, sent, recorded, call,
                   response, returned, consulted, clients>>

Next ==
    \/ TestConnection
    \/ ProbeRequest
    \/ CheckModelState
    \/ OfferWarmupChoice
    \/ WarmupRequest
    \/ WarmupModel
    \/ SyncIssue
    \/ SyncResolve
    \/ AsyncIssue
    \/ AsyncResolve
    \/ ConcurrentIssue
    \/ \E k \in Prompts : TaskResolve(k)
    \/ Report

Spec == Init /\ [][Next]_vars

----------------------------------------------------------------------------
(* SpecTimeout: an AdaptiveTimeoutManager, as constructed, whose two        *)
(* methods are called in any order with any arguments.                      *)

\* latencies handed to record_success, in ms
ApiLatencies == {100, 11000, 12000}

ModelStates == {"cold", "warm", "unknown"}

InitTimeout ==
    /\ pc = "timeout_manager"
    /\ model_state = "None"
    /\ is_warm = FALSE
    /\ performance_history = <<>>
    /\ results = <<>>
    /\ idx = 1
    /\ timeout = 0
    /\ tasks = NoTasks
    /\ table = <<>>
    /\ sent = <<>>
    /\ recorded = <<>>
    /\ call = NoCall
    /\ response = NoResponse
    /\ returned = <<>>
    /\ consulted = <<>>
    /\ clients = {}

\* timeout_manager.record_success(latency)
ApiRecordSuccess ==
    /\ pc = "timeout_manager"
    /\ Len(recorded) < MaxRecords
    /\ \E latency \in ApiLatencies :
         /\ performance_history' = record_success(performance_history, latency)
         /\ recorded' = Append(recorded, latency)
    /\ UNCHANGED <<pc, model_state, is_warm, results, idx, timeout, tasks, table,
                   sent, call,
                   response, returned, consulted, clients>>

\* timeout_manager.get_timeout(is_first, state)
ApiGetTimeout ==
    /\ pc = "timeout_manager"
    /\ \E is_first \in BOOLEAN, state \in ModelStates :
         /\ timeout' = get_timeout(is_first, state, performance_history)
         /\ call' = [is_first_request |-> is_first, model_state |-> state,
                     history |-> performance_history]
    /\ UNCHANGED <<pc, model_state, is_warm, performance_history, results, idx,
                   tasks, table, sent, recorded, response, returned, consulted,
                   clients>>

NextTimeout == ApiRecordSuccess \/ ApiGetTimeout

SpecTimeout == InitTimeout /\ [][NextTimeout]_vars

----------------------------------------------------------------------------
(* SpecAnalyze: analyze_enhanced_results on any results list main can       *)
(* build: outcomes grouped sync, async, concurrent, any number of each.     *)

\* latency_ms of the outcomes in the list
SuccessLatencies == {100, 6000}

FailedLatencies == {9000}

MethodRank(method) ==
    CASE method = "sync" -> 1 [] method = "async" -> 2 [] method = "concurrent" -> 3

Outcomes(prompt) ==
    {SuccessResult(prompt, l, m) : l \in SuccessLatencies, m \in {"sync", "async", "concurrent"}}
    \cup {TimeoutResult(prompt, warm_timeout, l, m) :
            l \in FailedLatencies, m \in {"sync", "async", "concurrent"}}

InitAnalyze ==
    /\ pc = "results"
    /\ model_state = "None"
    /\ is_warm = FALSE
    /\ performance_history = <<>>
    /\ results = <<>>
    /\ idx = 1
    /\ timeout = 0
    /\ tasks = NoTasks
    /\ table = <<>>
    /\ sent = <<>>
    /\ recorded = <<>>
    /\ call = NoCall
    /\ response = NoResponse
    /\ returned = <<>>
    /\ consulted = <<>>
    /\ clients = {}

\* results.append(result)
AddOutcome ==
    /\ pc = "results"
    /\ Len(results) < MaxOutcomes
    /\ \E o \in Outcomes(TEST_PROMPTS[(Len(results) % Len(TEST_PROMPTS)) + 1]) :
         /\ results # <<>> => MethodRank(Last(results).method) <= MethodRank(o.method)
         /\ results' = Append(results, o)
    /\ UNCHANGED <<pc, model_state, is_warm, performance_history, idx, timeout,
                   tasks, table, sent, recorded, call,
                   response, returned, consulted, clients>>

\* analyze_enhanced_results(results, ...)
Analyze ==
    /\ pc = "results"
    /\ table' = analyze_enhanced_results(results)
    /\ pc' = "done"
    /\ UNCHANGED <<model_state, is_warm, performance_history, results, idx,
                   timeout, tasks, sent, recorded, call,
                   response, returned, consulted, clients>>

NextAnalyze == AddOutcome \/ Analyze

SpecAnalyze == InitAnalyze /\ [][NextAnalyze]_vars

----------------------------------------------------------------------------
(* ModelStateManager on its own: check_model_state and warmup_model are     *)
(* called in any order, the endpoint answering each call in any way.        *)

\* state_manager = ModelStateManager(); the caller holds no state yet
InitProbe ==
    /\ pc = "state_manager"
    /\ model_state = "None"
    /\ is_warm = FALSE
    /\ performance_history = <<>>
    /\ results = <<>>
    /\ idx = 1
    /\ timeout = 0
    /\ tasks = NoTasks
    /\ table = <<>>
    /\ sent = <<>>
    /\ recorded = <<>>
    /\ call = NoCall
    /\ response = NoResponse
    /\ returned = <<>>
    /\ consulted = <<>>
    /\ clients = {}

\* model_state = state_manager.check_model_state()
ApiCheckModelState ==
    /\ pc = "state_manager"
    /\ Len(returned) < MaxProbes
    /\ \E resp \in PsResponses :
         LET out == check_model_state(resp, is_warm)
         IN  /\ response' = resp
             /\ model_state' = out.state
             /\ is_warm' = out.is_warm
             /\ returned' = Append(returned, out.state)
    /\ UNCHANGED <<pc, performance_history, results, idx, timeout, tasks,
                   table, sent, recorded, call, consulted,
                   clients>>

\* state_manager.warmup_model(): is_warm = True when the warmup request
\* succeeds (lines 80-82)
ApiWarmupModel ==
    /\ pc = "state_manager"
    /\ \E resp \in SyncResponses(basic_timeout) :
         is_warm' = (sync_request_basic(resp) \/ is_warm)
    /\ UNCHANGED <<pc, model_state, performance_history, results, idx,
                   timeout, tasks, table, sent, recorded, call, response,
                   returned, consulted,
                   clients>>

NextProbe == ApiCheckModelState \/ ApiWarmupModel

SpecProbe == InitProbe /\ [][NextProbe]_vars

----------------------------------------------------------------------------
(* The request functions on their own: each is called with any prompt, a    *)
(* timeout of either tier and any behaviour of the endpoint.                *)

DispatchTimeouts == {warm_timeout, cold_timeout}

\* what can happen to a request of the method: a coroutine handed to
\* asyncio.gather runs as a task
DispatchResponses(method, t) ==
    IF method = "concurrent"
    THEN EndpointResponses(t) \cup TaskResponses(t)
    ELSE EndpointResponses(t)

InitDispatch ==
    /\ pc = "dispatch"
    /\ model_state = "None"
    /\ is_warm = FALSE
    /\ performance_history = <<>>
    /\ results = <<>>
    /\ idx = 1
    /\ timeout = 0
    /\ tasks = NoTasks
    /\ table = <<>>
    /\ sent = <<>>
    /\ recorded = <<>>
    /\ call = NoCall
    /\ response = NoResponse
    /\ returned = <<>>
    /\ consulted = <<>>
    /\ clients = {}

\* enhanced_sync_request(prompt, timeout, timeout_manager) for "sync",
\* enhanced_async_request(prompt, timeout) awaited for "async" and run as a
\* task for "concurrent"
Dispatch(method) ==
    /\ pc = "dispatch"
    /\ Len(sent) < MaxDispatches
    /\ \E k \in Prompts, t \in DispatchTimeouts :
         \E resp \in DispatchResponses(method, t) :
            LET out == IF method = "sync"
                       THEN enhanced_sync_request(TEST_PROMPTS[k], t,
                                                  performance_history, resp)
                       ELSE [result  |-> enhanced_async_request(TEST_PROMPTS[k],
                                                                t, resp),
                             history |-> performance_history]
            IN  /\ timeout' = t
                /\ sent' = Append(sent, Request(method, k, t))
                /\ response' = resp
                /\ returned' = Append(returned, out.result)
                /\ performance_history' = out.history
                /\ recorded' = IF method = "sync" /\ SyncRecords(resp.kind)
                                THEN Append(recorded, resp.elapsed)
                                ELSE recorded
    /\ UNCHANGED <<pc, model_state, is_warm, results, idx, tasks, table,
                   call, consulted,
                   clients>>

NextDispatch == \E method \in {"sync", "async", "concurrent"} : Dispatch(method)

SpecDispatch == InitDispatch /\ [][NextDispatch]_vars

----------------------------------------------------------------------------
(* Properties of the benchmark run (Spec) *)

\* number of entries of sequence s equal to x
Count(s, x) == Cardinality({j \in 1..Len(s) : s[j] = x})

\* number of successful outcomes of rs with latency l
CountSuccessful(rs, l) ==
    Cardinality({j \in 1..Len(rs) : rs[j].success /\ rs[j].latency_ms = l})

AllLatencies == ServerLatencies \cup FailureLatencies

\* C1: every entry appended to the latency history is the latency of an
\* outcome with success = true; a request whose outcome has success = false
\* (timeout or any other failure) appends nothing.
C1_HistoryOnlySuccesses ==
    \A l \in AllLatencies : Count(recorded, l) <= CountSuccessful(results, l)

\* C2: at the end of a run every request that was dispatched, in SYNC, ASYNC
\* or CONCURRENT mode, has exactly one outcome record in results, in the
\* order of dispatch, whether it succeeded, failed, timed out or its task
\* ended with an exception.
C2_OneOutcomePerRequest ==
    pc = "done" =>
        /\ Len(results) = Len(sent)
        /\ \A j \in 1..Len(results) :
             /\ results[j].prompt = sent[j].prompt
             /\ results[j].method = sent[j].method

\* C3 as claimed: every outcome with success = true, in whatever mode, has
\* its own append in the latency history.
C3_EverySuccessRecorded ==
    \A l \in AllLatencies : CountSuccessful(results, l) <= Count(recorded, l)

\* C3 as amended: a SYNC request that completes with success = true appends
\* its latency to the latency history exactly once, and no step of the
\* ASYNC or CONCURRENT phase changes the history.
C3_OnlySyncSuccessRecorded ==
    [][/\ (pc = "sync_wait" /\ Last(results').success)
            => /\ performance_history'
                    = Append(performance_history, Last(results').latency_ms)
               /\ recorded' = Append(recorded, Last(results').latency_ms)
       /\ pc \in {"async", "async_wait", "concurrent", "gather"}
            => /\ performance_history' = performance_history
               /\ recorded' = recorded]_vars

\* C3 witness: a finished run in which a SYNC, an ASYNC and a CONCURRENT
\* request succeeded and the history holds the SYNC latency alone.
C3_Witness ==
    /\ pc = "done"
    /\ Len(successful(method_results(results, "sync"))) = 1
    /\ Len(successful(method_results(results, "async"))) >= 1
    /\ Len(successful(method_results(results, "concurrent"))) >= 2
    /\ results[1].success
    /\ performance_history = <<results[1].latency_ms>>

\* C4: at the end of a run the i-th CONCURRENT outcome in results has the
\* i-th prompt, whatever the order in which the requests resolved.
C4_ConcurrentPromptOrder ==
    pc = "done" =>
        LET conc == method_results(results, "concurrent")
        IN  \A i \in 1..Len(conc) : conc[i].prompt = TEST_PROMPTS[i]

\* C5: when an in-flight CONCURRENT request resolves, it resolves to the
\* outcome its own response gives it alone, and every sibling is left as it
\* was: still in flight, or resolved with the outcome it already had.
C5_SiblingsIsolated ==
    [][\A k \in Prompts :
         (tasks[k].state = "pending" /\ tasks'[k].state # "pending")
           => /\ tasks'[k].state = "done"
              /\ tasks'[k].resp \in TaskResponses(timeout)
              /\ tasks'[k].result
                   = enhanced_async_request(TEST_PROMPTS[k], timeout, tasks'[k].resp)
              /\ \A j \in Prompts \ {k} : tasks'[j] = tasks[j]]_vars

\* C5 witness: a finished batch in which one request timed out, one ended
\* with an exception and the third succeeded.
C5_Witness ==
    /\ pc = "done"
    /\ tasks[1].resp.kind = "timeout"
    /\ tasks[2].resp.kind = "cancelled"
    /\ tasks[3].resp.kind = "ok"
    /\ tasks[3].result.success
    /\ ~tasks[1].result.success

----------------------------------------------------------------------------
(* Properties of the timeout manager (SpecTimeout) *)

\* C6: get_timeout(is_first_request = true, state = cold) returns the
\* cold-start timeout 45 whatever the latency history holds.
C6_ColdFirstIs45 ==
    (call # NoCall /\ call.is_first_request /\ call.model_state = "cold")
        => timeout = 45

\* C6 witness: a cold first call made on a full history whose adaptive
\* timeout would have been above the warm floor.
C6_Witness ==
    /\ call # NoCall
    /\ call.is_first_request
    /\ call.model_state = "cold"
    /\ Len(call.history) = 5
    /\ 3 * SumSeq(call.history) > 2 * 1000 * 5 * 15
    /\ timeout = 45

\* C7 as claimed: on a non-empty history h, get_timeout(false, warm) is
\* exactly max(1.5 * mean(h), 15) seconds.
C7_ExactlyMaxOfMeanAndFloor ==
    (call # NoCall /\ ~call.is_first_request /\ call.model_state = "warm"
       /\ call.history # <<>>)
        => timeout * 2 * 1000 * Len(call.history)
             = Max(3 * SumSeq(call.history), 15 * 2 * 1000 * Len(call.history))

\* C7 as amended: on a non-empty history h, get_timeout(false, warm) is
\* max(1.5 * mean(h) truncated to whole seconds, 15): 15 when 1.5 * mean(h)
\* is below 16, and otherwise the whole number t of seconds with
\* t <= 1.5 * mean(h) < t + 1; it is never below 15.
C7_TruncatedMaxOfMeanAndFloor ==
    (call # NoCall /\ ~call.is_first_request /\ call.model_state = "warm"
       /\ call.history # <<>>)
        => LET n  == Len(call.history)
               m3 == 3 * SumSeq(call.history)   \* 1.5 * mean(h) * 2000 * n
           IN  /\ timeout >= 15
               /\ m3 < 16 * 2 * 1000 * n => timeout = 15
               /\ m3 >= 16 * 2 * 1000 * n
                    => /\ timeout * 2 * 1000 * n <= m3
                       /\ m3 < (timeout + 1) * 2 * 1000 * n

\* C7 witness: a warm, not-first call on a history whose 1.5 * mean is
\* above the floor and not a whole number of seconds.
C7_Witness ==
    /\ call # NoCall
    /\ ~call.is_first_request
    /\ call.model_state = "warm"
    /\ call.history = <<11000, 12000>>
    /\ timeout = 17

\* C8: the latency history never holds more than 5 entries, and it is the
\* last min(5, k) of the k latencies recorded so far, in insertion order.
C8_HistoryIsLastFive ==
    LET k == Len(recorded)
        n == IF k < 5 THEN k ELSE 5
    IN  /\ Len(performance_history) <= 5
        /\ performance_history = SubSeq(recorded, k - n + 1, k)

\* C8 witness: a sixth latency has been recorded and the first one, which
\* differs from the others, is gone.
C8_Witness ==
    /\ Len(recorded) = 6
    /\ recorded[1] = 100
    /\ \A j \in 2..6 : recorded[j] # 100
    /\ performance_history = Tail(recorded)

----------------------------------------------------------------------------
(* Properties of the report (SpecAnalyze) *)

Healthy(row) == row.optimization # "Needs tuning"

\* positions of the outcomes of a method in rs, and of its successes
Of(rs, method) == {j \in 1..Len(rs) : rs[j].method = method}

SuccessesOf(rs, method) == {j \in Of(rs, method) : rs[j].success}

RECURSIVE SumAt(_, _)
SumAt(rs, js) ==
    IF js = {} THEN 0
    ELSE LET j == CHOOSE x \in js : TRUE
         IN  rs[j].latency_ms + SumAt(rs, js \ {j})

RowsOf(method) == {j \in 1..Len(table) : table[j].method = method}

\* C9: a mode all of whose outcomes are failures still gets its row in the
\* report, with success_rate 0, avg_latency 0 and the tag "needs tuning".
C9_AllFailedNeedsTuning ==
    pc = "done" =>
        \A m \in {"sync", "async", "concurrent"} :
            (Of(results, m) # {} /\ SuccessesOf(results, m) = {})
                => /\ RowsOf(m) # {}
                   /\ \A j \in RowsOf(m) :
                        /\ RatEq(table[j].success_rate, 0)
                        /\ RatEq(table[j].avg_latency, 0)
                        /\ ~Healthy(table[j])

\* C10: the row of a mode with at least one outcome is tagged healthy
\* exactly when the mode is SYNC and success_rate = 100, or ASYNC and
\* avg_latency_ms < 5000, or CONCURRENT and success_rate > 80, where
\* success_rate is 100 * successes / outcomes and avg_latency_ms the mean
\* latency of the successes (0 without any); three SYNC successes of 100 ms
\* give success_rate 100, avg_latency 100 and a healthy row.
C10_HealthTag ==
    pc = "done" =>
        /\ \A m \in {"sync", "async", "concurrent"} :
             Of(results, m) # {} =>
                /\ Cardinality(RowsOf(m)) = 1
                /\ \A j \in RowsOf(m) :
                     LET total == Cardinality(Of(results, m))
                         ok    == Cardinality(SuccessesOf(results, m))
                         sum   == SumAt(results, SuccessesOf(results, m))
                     IN  Healthy(table[j])
                           <=> \/ m = "sync" /\ 100 * ok = 100 * total
                               \/ m = "async" /\ (ok = 0 \/ sum < 5000 * ok)
                               \/ m = "concurrent" /\ 100 * ok > 80 * total
        /\ (Len(results) = 3
              /\ \A j \in 1..3 : results[j].method = "sync" /\ results[j].success
                                   /\ results[j].latency_ms = 100)
             => /\ Len(table) = 1
                /\ RatEq(table[1].success_rate, 100)
                /\ RatEq(table[1].avg_latency, 100)
                /\ Healthy(table[1])

\* C10 witness: a report with healthy and not healthy rows: SYNC at 100% and
\* ASYNC at an average of 3050 ms are healthy, CONCURRENT at 2 of 3 is not.
C10_Witness ==
    /\ pc = "done"
    /\ Len(table) = 3
    /\ RatEq(table[1].success_rate, 100) /\ Healthy(table[1])
    /\ table[2].avg_latency = [num |-> 6100, den |-> 2] /\ Healthy(table[2])
    /\ table[3].success_rate = [num |-> 200, den |-> 3] /\ ~Healthy(table[3])

\* C11: avg_latency_ms of a mode with at least one outcome is the mean
\* latency of its successful outcomes alone (failed outcomes never count),
\* and 0 when it has no successful outcome; outcomes (success, 100 ms) and
\* (fail, 9000 ms) give 100.
C11_AvgOverSuccessesOnly ==
    pc = "done" =>
        \A m \in {"sync", "async", "concurrent"} :
            \A j \in RowsOf(m) :
                LET ok  == Cardinality(SuccessesOf(results, m))
                    sum == SumAt(results, SuccessesOf(results, m))
                    avg == table[j].avg_latency
                IN  /\ avg.den > 0
                    /\ ok > 0 => avg.num * ok = sum * avg.den
                    /\ ok = 0 => avg.num = 0

\* C11 witness: the report of one success of 100 ms followed by one failure
\* of 9000 ms in the same mode: the average is 100.
C11_Witness ==
    /\ pc = "done"
    /\ Len(results) = 2
    /\ results[1].method = "async" /\ results[2].method = "async"
    /\ results[1].success /\ results[1].latency_ms = 100
    /\ ~results[2].success /\ results[2].latency_ms = 9000
    /\ Len(table) = 1
    /\ RatEq(table[1].avg_latency, 100)

\* C12: a mode without outcomes has no row in the report, and a mode with
\* n > 0 outcomes has exactly one row, whose success_rate is
\* successes / n * 100, a value between 0 and 100.
C12_RowPerNonEmptyMode ==
    pc = "done" =>
        \A m \in {"sync", "async", "concurrent"} :
            LET n  == Cardinality(Of(results, m))
                ok == Cardinality(SuccessesOf(results, m))
            IN  /\ n = 0 => RowsOf(m) = {}
                /\ n > 0 =>
                     /\ Cardinality(RowsOf(m)) = 1
                     /\ \A j \in RowsOf(m) :
                          LET rate == table[j].success_rate
                          IN  /\ rate.den > 0
                              /\ rate.num * n = 100 * ok * rate.den
                              /\ 0 <= rate.num
                              /\ rate.num <= 100 * rate.den

\* C12 witness: a report of ASYNC outcomes only, one of two successful: the
\* single row has success_rate 50.
C12_Witness ==
    /\ pc = "done"
    /\ Len(results) = 2
    /\ Of(results, "async") = {1, 2}
    /\ Cardinality(SuccessesOf(results, "async")) = 1
    /\ Len(table) = 1
    /\ table[1].method = "async"
    /\ RatEq(table[1].success_rate, 50)

\* whether the answer resp of GET /api/ps lists the target model by its
\* exact name
ListsTarget(resp) == \E k \in 1..Len(resp.models) : resp.models[k] = MODEL

\* C13: when the loaded-models query succeeds, check_model_state returns
\* warm if and only if some entry of the list is named exactly as the target
\* model, and cold otherwise, the empty list included.
C13_WarmIffTargetListed ==
    (returned # <<>> /\ response.kind = "200") =>
        /\ Last(returned) = "warm" <=> ListsTarget(response)
        /\ Last(returned) = "cold" <=> ~ListsTarget(response)

\* C13 witness: the target is the second entry of the list and the call
\* returned warm.
C13_Witness ==
    /\ returned # <<>>
    /\ response.kind = "200"
    /\ response.models = <<"llama3:latest", "qwen3:latest">>
    /\ Last(returned) = "warm"

\* C14: check_model_state never raises: when the query fails in transport
\* or answers with another status than 200 it returns unknown, main goes on
\* to the SYNC phase, and the first request, made on an empty history, is
\* issued with the warm timeout of 15 s.
C14_ProbeFailureIsUnknown ==
    /\ [][(pc = "probe_response" /\ response.kind # "200")
            => (model_state' = "unknown" /\ pc' = "sync")]_vars
    /\ []((model_state = "unknown" /\ sent # <<>>)
            => sent[1] = Request("sync", 1, warm_timeout))

\* C14 witness: the first SYNC request is in flight with 15 s after the
\* probe returned unknown.
C14_Witness ==
    /\ model_state = "unknown"
    /\ pc = "sync_wait"
    /\ idx = 1
    /\ performance_history = <<>>
    /\ timeout = 15
    /\ Len(sent) = 1

\* the step is a call of check_model_state
IsProbeCall == Len(returned') = Len(returned) + 1

\* the state check_model_state derives from the answer resp alone
LiveState(resp) ==
    IF resp.kind = "200"
    THEN IF ListsTarget(resp) THEN "warm" ELSE "cold"
    ELSE "unknown"

\* C15 (as claimed): a call of check_model_state changes no state of the
\* program, the probe object included, and what the program holds after
\* the call comes from that call's answer alone.
C15_ProbeReadOnly ==
    [][IsProbeCall =>
          /\ UNCHANGED <<is_warm, performance_history, results, timeout,
                         sent, recorded>>
          /\ model_state' = LiveState(response')]_vars

\* C15 (amended): a call of check_model_state changes nothing but the
\* probe's own is_warm field, which an answer 200 sets to whether the target
\* is listed and any other answer leaves as it was; the timeout policy and
\* the results are untouched, and the state the call returns comes from that
\* call's answer alone.
C15_ProbeWritesOnlyIsWarm ==
    [][IsProbeCall =>
          /\ UNCHANGED <<performance_history, results, timeout, sent, recorded>>
          /\ is_warm' = IF response'.kind = "200"
                        THEN ListsTarget(response') ELSE is_warm
          /\ Last(returned') = LiveState(response')
          /\ model_state' = Last(returned')]_vars

\* C15 witness: a call that found the target loaded, then a call whose query
\* failed: it returned unknown and is_warm still holds the earlier answer.
C15_Witness ==
    /\ returned = <<"warm", "unknown">>
    /\ response.kind = "exception"
    /\ model_state = "unknown"
    /\ is_warm

\* the ways a request itself can fail: timeout, transport failure, bad
\* status, malformed response
RequestFailures == {"timeout", "conn_error", "http_error", "bad_json"}

KindSpellings(kind) ==
    CASE kind = "timeout"    -> {"TIMEOUT", "timeout"}
      [] kind = "conn_error" -> {"CONNECTION", "connection"}
      [] OTHER               -> {"OTHER", "other"}

\* C17 (as claimed): the error kind of a failed outcome is one of TIMEOUT,
\* CONNECTION, OTHER: TIMEOUT for an expired timeout, CONNECTION for a
\* transport failure, OTHER for any other failure.
C17_ThreeErrorKinds ==
    (returned # <<>> /\ IsDict(Last(returned)) /\ ~Last(returned).success) =>
        Last(returned).error_type \in KindSpellings(response.kind)

\* C17 (amended): the error_type of a failed outcome is "timeout" for an
\* expired timeout and otherwise the class name of the exception raised:
\* ConnectionError (requests) or ConnectError (httpx) for a transport
\* failure, HTTPError or HTTPStatusError for a rejected status,
\* JSONDecodeError for a malformed body.
C17_TimeoutOrExceptionName ==
    (returned # <<>> /\ IsDict(Last(returned)) /\ ~Last(returned).success) =>
        LET sync == Last(sent).method = "sync"
            name == Last(returned).error_type
        IN  /\ response.kind \in RequestFailures
            /\ response.kind = "timeout" => name = "timeout"
            /\ response.kind = "conn_error" =>
                 name = IF sync THEN "ConnectionError" ELSE "ConnectError"
            /\ response.kind = "http_error" =>
                 name = IF sync THEN "HTTPError" ELSE "HTTPStatusError"
            /\ response.kind = "bad_json" => name = "JSONDecodeError"

\* C17 witness: a SYNC request whose connection was refused came back with
\* error_type ConnectionError.
C17_Witness ==
    /\ returned # <<>>
    /\ Last(sent).method = "sync"
    /\ response.kind = "conn_error"
    /\ ~Last(returned).success
    /\ Last(returned).error_type = "ConnectionError"

\* position of main() in its run: every step of the run moves it forward
Progress ==
    CASE pc = "start"          -> 0
      [] pc = "probe"          -> 1
      [] pc = "probe_response" -> 2
      [] pc = "choice"         -> 3
      [] pc = "warmup"         -> 4
      [] pc = "warmup_response" -> 5
      [] pc = "sync"           -> 4 + 2 * idx
      [] pc = "sync_wait"      -> 5 + 2 * idx
      [] pc = "async"          -> 10 + 2 * idx
      [] pc = "async_wait"     -> 11 + 2 * idx
      [] pc = "concurrent"     -> 18
      [] pc = "gather"         ->
            19 + Cardinality({k \in Prompts : tasks[k].state = "done"})
      [] pc = "done"           -> 23
      [] pc = "returned"       -> 23

\* the requests of a full run: every prompt once in each mode, mode by mode
AllRequests ==
    [j \in 1..(3 * Len(TEST_PROMPTS)) |->
        [method |-> methods[((j - 1) \div Len(TEST_PROMPTS)) + 1],
         prompt |-> TEST_PROMPTS[((j - 1) % Len(TEST_PROMPTS)) + 1]]]

\* C18: once the connectivity check has passed, the run terminates at the
\* final report whatever the requests do: each step moves main() forward
\* through a bounded number of positions, main() can always take a step
\* until the report is made, and at the report every SYNC, ASYNC and
\* CONCURRENT request has been dispatched, failed ones before it or not.
C18_RunReachesReport ==
    /\ [][Progress' > Progress]_vars
    /\ []((pc \notin {"start", "done", "returned"}) => ENABLED Next)
    /\ [][pc' = "returned" => pc = "start"]_vars
    /\ [](pc = "done" =>
            /\ table = analyze_enhanced_results(results)
            /\ Len(sent) = Len(AllRequests)
            /\ \A j \in 1..Len(sent) :
                 /\ sent[j].method = AllRequests[j].method
                 /\ sent[j].prompt = AllRequests[j].prompt)

\* C18 witness: the report is made after a run in which every one of the
\* nine requests failed.
C18_Witness ==
    /\ pc = "done"
    /\ Len(sent) = 9
    /\ Len(results) = 9
    /\ \A j \in 1..Len(results) : ~results[j].success
    /\ Len(table) = 3

\* the ASYNC requests issued and the ASYNC outcomes received
AsyncSent == SelectSeq(sent, LAMBDA r : r.method = "async")

AsyncResolved == SelectSeq(results, LAMBDA r : r.method = "async")

\* C19: at most one ASYNC request is in flight at any time: the requests are
\* issued in prompt order, and the next one only once the outcome of the one
\* before is there.
C19_OneAsyncInFlight ==
    /\ Len(AsyncSent) - Len(AsyncResolved) \in {0, 1}
    /\ Len(AsyncSent) - Len(AsyncResolved) = 1 <=> pc = "async_wait"
    /\ \A j \in 1..Len(AsyncSent) : AsyncSent[j].prompt = TEST_PROMPTS[j]
    /\ \A j \in 1..Len(AsyncResolved) : AsyncResolved[j].prompt = TEST_PROMPTS[j]

\* C19 witness: the second ASYNC request is in flight, the first one having
\* failed.
C19_Witness ==
    /\ pc = "async_wait"
    /\ Len(AsyncSent) = 2
    /\ Len(AsyncResolved) = 1
    /\ ~AsyncResolved[1].success

\* C20 (as claimed): every request of the SYNC, ASYNC and CONCURRENT modes is
\* preceded by a get_timeout call of its own and issued with the value of
\* that call.
C20_OwnTimeoutCallEach ==
    /\ Len(consulted) = Len(sent)
    /\ \A j \in 1..Len(sent) : sent[j].timeout = consulted[j]

\* C20 (amended): every SYNC and ASYNC request is preceded by a get_timeout
\* call of its own and issued with its value; the three CONCURRENT requests
\* are preceded by one get_timeout call made for the batch and all issued
\* with its value.
C20_OneTimeoutCallPerSequentialRequestAndBatch ==
    LET seq == 2 * Len(TEST_PROMPTS)
    IN  /\ Len(sent) \in 0..seq \cup {seq + Len(TEST_PROMPTS)}
        /\ Len(consulted) = IF Len(sent) <= seq THEN Len(sent) ELSE seq + 1
        /\ \A j \in 1..Len(sent) :
             /\ j <= seq => sent[j].method \in {"sync", "async"}
             /\ j > seq => sent[j].method = "concurrent"
             /\ sent[j].timeout = consulted[IF j <= seq THEN j ELSE seq + 1]

\* C20 witness: the batch is in flight: nine requests issued, seven
\* get_timeout calls made, the three CONCURRENT requests carrying the value
\* of the seventh.
C20_Witness ==
    /\ pc = "gather"
    /\ Len(sent) = 9
    /\ Len(consulted) = 7
    /\ \A j \in 7..9 : sent[j].timeout = consulted[7]
    /\ consulted[7] = 16

\* the requests issued for prompt k in the mode, by position in sent
RequestsFor(method, k) ==
    {j \in 1..Len(sent) :
        sent[j].method = method /\ sent[j].prompt = TEST_PROMPTS[k]}

\* the modes whose loop is over
ModesOver ==
    CASE pc \in {"async", "async_wait"}            -> {"sync"}
      [] pc = "concurrent"                         -> {"sync", "async"}
      [] pc \in {"gather", "done"}                 -> {"sync", "async", "concurrent"}
      [] OTHER                                     -> {}

\* C21: there is no retry: in each mode every prompt is sent in exactly one
\* request; whatever the outcome of a request, failed or timed out, no
\* second request is issued for its prompt in that mode.
C21_OneRequestPerPromptAndMode ==
    \A m \in {"sync", "async", "concurrent"}, k \in Prompts :
        /\ Cardinality(RequestsFor(m, k)) <= 1
        /\ m \in ModesOver => Cardinality(RequestsFor(m, k)) = 1

\* C21 witness: the run is over, the first SYNC request timed out and the
\* second ASYNC request failed, and each was sent once.
C21_Witness ==
    /\ pc = "done"
    /\ results[1].method = "sync" /\ ~results[1].success
    /\ results[1].error_type = "timeout"
    /\ results[5].method = "async" /\ ~results[5].success
    /\ Cardinality(RequestsFor("sync", 1)) = 1
    /\ Cardinality(RequestsFor("async", 2)) = 1

\* the requests that have been issued and have not resolved yet
InFlight ==
    {j \in 1..Len(sent) :
        \/ pc \in {"sync_wait", "async_wait"} /\ j = Len(sent)
        \/ /\ pc = "gather"
           /\ j > Len(sent) - Len(TEST_PROMPTS)
           /\ tasks[j - (Len(sent) - Len(TEST_PROMPTS))].state = "pending"}

\* C22: the HTTP client opened for a request is released when the request
\* resolves, with a success, a failure or a timeout alike: the open clients
\* are those of the requests in flight, and none is open when the run has
\* ended.
C22_ClientsReleased ==
    /\ clients = InFlight
    /\ pc \in {"done", "returned"} => clients = {}

\* C22 witness: two requests of the batch have resolved, one timed out and
\* one refused, and only the client of the third is open.
C22_Witness ==
    /\ pc = "gather"
    /\ tasks[1].state = "done" /\ tasks[1].resp.kind = "timeout"
    /\ tasks[2].state = "done" /\ tasks[2].resp.kind = "conn_error"
    /\ tasks[3].state = "pending"
    /\ clients = {9}

\* C23: when the connectivity check fails (another status than 200, or an
\* exception) main returns at once: no probe, no generation request, no
\* outcome, no report; and main returns before the report in no other case.
C23_ConnectivityFailureEndsRun ==
    /\ [][pc = "start" =>
            (pc' = "returned" <=> response'.kind # "200")]_vars
    /\ [][pc' = "returned" => (pc = "start" /\ response'.kind # "200")]_vars
    /\ [](pc = "returned" =>
            /\ model_state = "None"
            /\ sent = <<>>
            /\ consulted = <<>>
            /\ results = <<>>
            /\ table = <<>>
            /\ ~ENABLED Next)
    /\ []((pc \notin {"start", "returned", "done"}) => ENABLED Next)

\* C23 witness: the connectivity check answered 500 and main has returned.
C23_Witness ==
    /\ pc = "returned"
    /\ response.kind = "500"
    /\ sent = <<>>
    /\ results = <<>>

\* the step is a get_timeout call of main
IsTimeoutCall == Len(consulted') = Len(consulted) + 1

\* the cold branch of get_timeout is taken by the first call of the run
\* only, made for the first SYNC request with state cold, and every call of
\* the ASYNC and CONCURRENT phases passes is_first_request = false and warm
ColdBranchOnlyFirstSync ==
    [][IsTimeoutCall =>
          /\ (call'.is_first_request /\ call'.model_state = "cold") =>
                (consulted = <<>> /\ pc = "sync" /\ idx = 1
                   /\ model_state = "cold" /\ timeout' = cold_timeout)
          /\ pc \in {"async", "concurrent"} =>
                (~call'.is_first_request /\ call'.model_state = "warm")]_vars

\* after a cold probe and three failed SYNC requests every ASYNC and
\* CONCURRENT request is issued with 15 s
WarmTimeoutAfterFailedSync ==
    (/\ model_state = "cold"
     /\ Len(results) >= Len(TEST_PROMPTS)
     /\ \A j \in 1..Len(TEST_PROMPTS) : ~results[j].success)
        => \A j \in 1..Len(sent) :
               j > Len(TEST_PROMPTS) => sent[j].timeout = warm_timeout

\* C24: the 45 s cold-start timeout is selected for at most one request of a
\* run, the first SYNC request when the state passed is cold; every ASYNC
\* and CONCURRENT timeout is computed with warm and is_first_request =
\* false whatever the probe returned and the SYNC outcomes were, so that
\* after a cold probe and three failed SYNC requests they all get 15 s.
C24_ColdTimeoutAtMostOnce ==
    /\ ColdBranchOnlyFirstSync
    /\ []WarmTimeoutAfterFailedSync

\* main's model_state is the probe's result until a warmup, chosen after a
\* cold probe, succeeds: it is then warm, with no second probe; a declined
\* or failed warmup leaves it cold; and the warmup request adds no entry to
\* the latency history and no outcome to results
WarmupHandling ==
    /\ [][model_state' # model_state =>
            \/ pc = "probe_response"
            \/ /\ pc = "warmup_response"
               /\ model_state = "cold"
               /\ response.kind = "ok"
               /\ model_state' = "warm"]_vars
    /\ [][pc = "warmup_response" =>
            model_state' = IF response.kind = "ok" THEN "warm" ELSE "cold"]_vars
    /\ [][(pc \in {"choice", "warmup", "warmup_response"}) =>
            UNCHANGED <<performance_history, recorded, results, sent>>]_vars
    /\ [](pc \in {"choice", "warmup", "warmup_response"} => model_state = "cold")

\* C25 (as claimed): the state handed to the timeout policy is main's
\* model_state at every call, and so differs from the probe's result only
\* after a cold probe followed by a chosen, successful warmup.
C25_HandedStateIsModelState ==
    /\ WarmupHandling
    /\ [][IsTimeoutCall => call'.model_state = model_state]_vars

\* C25 (amended): the state handed to the timeout policy for a SYNC request
\* is main's model_state, which differs from the probe's result only after
\* a cold probe followed by a chosen, successful warmup (a declined or
\* failed warmup leaves it cold, and the warmup request adds neither a
\* history entry nor an outcome); the calls made for ASYNC and CONCURRENT
\* requests hand the constant warm whatever model_state is.
C25_SyncHandsModelStateOthersWarm ==
    /\ WarmupHandling
    /\ [][IsTimeoutCall =>
            call'.model_state = IF pc = "sync" THEN model_state ELSE "warm"]_vars

\* C25 witness: after a cold probe and a warmup that did not succeed (or was
\* declined) the first SYNC call was handed cold, and an ASYNC call is handed
\* warm although model_state is still cold.
C25_Witness ==
    /\ pc = "async_wait"
    /\ model_state = "cold"
    /\ sent[1].timeout = cold_timeout
    /\ call.model_state = "warm"
    /\ ~call.is_first_request

\* position of a prompt in TEST_PROMPTS
PromptIndex(prompt) == CHOOSE k \in Prompts : TEST_PROMPTS[k] = prompt

\* the outcomes of the method received so far
OutcomesOf(method) == SelectSeq(results, LAMBDA r : r.method = method)

\* the sequence rs of requests or outcomes is grouped SYNC, ASYNC,
\* CONCURRENT, each group in prompt order
GroupedInPromptOrder(rs) ==
    \A i, j \in 1..Len(rs) :
        i < j =>
            \/ MethodRank(rs[i].method) < MethodRank(rs[j].method)
            \/ /\ rs[i].method = rs[j].method
               /\ PromptIndex(rs[i].prompt) < PromptIndex(rs[j].prompt)

\* the requests of the method issued so far, by position in sent
RequestsOfMethod(method) == {j \in 1..Len(sent) : sent[j].method = method}

\* C26: the three phases do not overlap and follow each other: an ASYNC
\* request is issued only when all the SYNC requests have resolved, a
\* CONCURRENT request only when all the ASYNC requests have resolved, and
\* results holds the SYNC outcomes, then the ASYNC outcomes, then the
\* CONCURRENT outcomes, each group in prompt order.
C26_PhasesInOrder ==
    /\ RequestsOfMethod("async") # {} =>
         (Len(OutcomesOf("sync")) = Len(TEST_PROMPTS)
            /\ Cardinality(RequestsOfMethod("sync")) = Len(TEST_PROMPTS))
    /\ RequestsOfMethod("concurrent") # {} =>
         (Len(OutcomesOf("async")) = Len(TEST_PROMPTS)
            /\ Cardinality(RequestsOfMethod("async")) = Len(TEST_PROMPTS))
    /\ \A j \in InFlight, i \in 1..Len(sent) :
         sent[i].method # sent[j].method => i \notin InFlight
    /\ GroupedInPromptOrder(sent)
    /\ GroupedInPromptOrder(results)

\* C26 witness: the report is made with the nine outcomes in results, three
\* per mode.
C26_Witness ==
    /\ pc = "done"
    /\ Len(results) = 9
    /\ Len(OutcomesOf("sync")) = 3
    /\ Len(OutcomesOf("async")) = 3
    /\ Len(OutcomesOf("concurrent")) = 3
    /\ results[4].method = "async"
    /\ results[7].method = "concurrent"
    /\ results[9].prompt = TEST_PROMPTS[3]

====
